---- MODULE Spec2Model ----
(***************************************************************************)
(* A model of mc_hash_rng.h, a stateless hash-based pseudo-random number   *)
(* generator.                                                              *)
(*                                                                         *)
(* MCHR_UINT is a 32-bit unsigned word.  A word is modelled as the pair    *)
(* <<hi, lo>> of its two 16-bit halves, so that every intermediate value   *)
(* of the arithmetic below stays under 2^31; the operators compute the C   *)
(* operations exactly, modulo 2^32.                                        *)
(***************************************************************************)
EXTENDS Integers, Sequences, FiniteSets, TLC

\* ------------------------------------------------------------------------
\* 32-bit unsigned words (MCHR_UINT)
\* ------------------------------------------------------------------------

\* 2^16: the radix of the two halves of a word
Half == 65536

\* The only element of a singleton.  The operators below bind their
\* arguments to their values through singletons, so that an argument is
\* evaluated once however often the body uses it.
Only(S) == CHOOSE v \in S : TRUE

\* The word of a natural number n < 2^31
U32(n) == Only({<<m \div Half, m % Half>> : m \in {n}})

\* The C constant 0xFFFFFFFFU
AllOnes == <<Half - 1, Half - 1>>

\* a + b on MCHR_UINT
Add32(a, b) ==
    Only({<<(x[1] + y[1] + ((x[2] + y[2]) \div Half)) % Half,
            (x[2] + y[2]) % Half>> : x \in {a}, y \in {b}})

\* -a on MCHR_UINT (two's complement)
Neg32(a) ==
    Only({Add32(<<Half - 1 - x[1], Half - 1 - x[2]>>, <<0, 1>>) : x \in {a}})

\* a - b on MCHR_UINT
Sub32(a, b) == Add32(a, Neg32(b))

\* x * y for 16-bit x and y, as the pair <<(x*y) div 2^16, (x*y) mod 2^16>>
Mul16(x, y) ==
    LET p0 == (x % 256) * y
        p1 == (x \div 256) * y
        s  == p0 + 256 * (p1 % 256)
    IN  <<(s \div Half) + (p1 \div 256), s % Half>>

\* a * b on MCHR_UINT
Mul32(a, b) ==
    Only({LET ll == Mul16(x[2], y[2])
              hl == Mul16(x[1], y[2])
              lh == Mul16(x[2], y[1])
          IN  <<(ll[1] + hl[2] + lh[2]) % Half, ll[2]>> :
                x \in {a}, y \in {b}})

RECURSIVE Xor16(_, _)
\* x ^ y for 16-bit x and y
Xor16(x, y) ==
    IF x = 0 THEN y
    ELSE IF y = 0 THEN x
    ELSE 2 * Xor16(x \div 2, y \div 2) + ((x + y) % 2)

RECURSIVE And16(_, _)
\* x & y for 16-bit x and y
And16(x, y) ==
    IF x = 0 \/ y = 0 THEN 0
    ELSE 2 * And16(x \div 2, y \div 2) + ((x % 2) * (y % 2))

\* a ^ b on MCHR_UINT
Xor32(a, b) ==
    Only({<<Xor16(x[1], y[1]), Xor16(x[2], y[2])>> : x \in {a}, y \in {b}})

\* a & b on MCHR_UINT
And32(a, b) ==
    Only({<<And16(x[1], y[1]), And16(x[2], y[2])>> : x \in {a}, y \in {b}})

\* a >> n on MCHR_UINT, 0 <= n < 32
Shr32(a, n) ==
    Only({IF k >= 16 THEN <<0, x[1] \div (2 ^ (k - 16))>>
          ELSE <<x[1] \div (2 ^ k),
                 (x[1] % (2 ^ k)) * (2 ^ (16 - k)) + (x[2] \div (2 ^ k))>> :
                x \in {a}, k \in {n}})

\* a << n on MCHR_UINT, 0 <= n < 32
Shl32(a, n) ==
    Only({IF k >= 16 THEN <<(x[2] * (2 ^ (k - 16))) % Half, 0>>
          ELSE <<((x[1] * (2 ^ k)) + (x[2] \div (2 ^ (16 - k)))) % Half,
                 (x[2] * (2 ^ k)) % Half>> :
                x \in {a}, k \in {n}})

\* The value of a word under 2^31 as an integer
WordToNat(w) == Only({x[1] * Half + x[2] : x \in {w}})

\* a < b on MCHR_UINT (unsigned comparison)
Lt32(a, b) ==
    \E x \in {a}, y \in {b} : x[1] < y[1] \/ (x[1] = y[1] /\ x[2] < y[2])

\* a <= b on MCHR_UINT
Le32(a, b) == \E x \in {a}, y \in {b} : x = y \/ Lt32(x, y)

RECURSIVE BitLen(_)
\* The number of significant bits of a natural number
BitLen(n) == IF n = 0 THEN 0 ELSE 1 + BitLen(n \div 2)

\* The number of leading zero bits of a word.  The library only calls it
\* on upper_bound >= 2; clz(0) is 32 in the _BitScanReverse variant.
clz(a) ==
    Only({IF x[1] # 0 THEN 16 - BitLen(x[1]) ELSE 32 - BitLen(x[2]) :
            x \in {a}})

\* ------------------------------------------------------------------------
\* MCHR_INT: a signed 32-bit integer is an integer of -2^31 .. 2^31 - 1
\* ------------------------------------------------------------------------

INT_MAX == 2147483647
INT_MIN == -INT_MAX - 1

\* The conversion (MCHR_UINT)v, which also is how a coordinate stored in an
\* index buffer is read back through the MCHR_UINT pointer
IntToWord(v) ==
    Only({IF i >= 0 THEN U32(i)
          ELSE LET m == -(i + 1)      \* the bits of i, complemented
               IN  <<Half - 1 - (m \div Half), Half - 1 - (m % Half)>> :
            i \in {v}})

\* The conversion (MCHR_INT)w of the return statements (two's complement)
WordToInt(w) ==
    Only({IF x[1] < Half \div 2 THEN x[1] * Half + x[2]
          ELSE -((Half - 1 - x[1]) * Half + (Half - 1 - x[2])) - 1 :
            x \in {w}})

\* ------------------------------------------------------------------------
\* The hash
\* ------------------------------------------------------------------------

MCHR_PRIMES ==
    << <<0, 1>>,
       <<40503, 31153>>,    \* 0x9E3779B1
       <<34283, 51831>>,    \* 0x85EBCA77
       <<49842, 44605>>,    \* 0xC2B2AE3D
       <<10196, 60207>>,    \* 0x27D4EB2F
       <<5718, 26545>> >>   \* 0x165667B1

MCHR_PRIMES_LEN == 6

MCHR_BIT_NOISE1 == <<26851, 7588>>      \* 0x68E31DA4
MCHR_BIT_NOISE2 == <<46377, 31309>>     \* 0xB5297A4D
MCHR_BIT_NOISE3 == <<6998, 50409>>      \* 0x1B56C4E9

RECURSIVE HashWordsStuck(_, _, _, _)
\* HashWords without `i = i_next`: every word meets the same two primes
HashWordsStuck(index, k, i, num) ==
    IF k > Len(index) THEN num
    ELSE LET i_next == (i + 1) % MCHR_PRIMES_LEN
         IN  HashWordsStuck(index, k + 1, i,
                 Add32(num, Add32(Mul32(index[k], MCHR_PRIMES[i + 1]),
                                  MCHR_PRIMES[i_next + 1])))

RECURSIVE HashWords(_, _, _, _)
\* The while loop of mchr_get_hash_uint: num after the words k .. Len(index)
\* of the buffer were consumed, i the current position in MCHR_PRIMES
\* (0-based as in the source)
HashWords(index, k, i, num) ==
    IF k > Len(index) THEN num
    ELSE LET i_next == (i + 1) % MCHR_PRIMES_LEN
         IN  HashWords(index, k + 1, i_next,
                 Add32(num, Add32(Mul32(index[k], MCHR_PRIMES[i + 1]),
                                  MCHR_PRIMES[i_next + 1])))

\* HashNoise with MCHR_BIT_NOISE1 also in the place of MCHR_BIT_NOISE3
HashNoiseEvenMul(num0, seed) ==
    LET n1 == Mul32(num0, MCHR_BIT_NOISE1)
        n2 == Add32(n1, seed)
        n3 == Xor32(n2, Shr32(n2, 8))
        n4 == Add32(n3, MCHR_BIT_NOISE2)
        n5 == Xor32(n4, Shl32(n4, 8))
        n6 == Mul32(n5, MCHR_BIT_NOISE1)
    IN  Xor32(n6, Shr32(n6, 8))

\* HashNoise without `num *= MCHR_BIT_NOISE1`
HashNoiseNoMul(num0, seed) ==
    LET n2 == Add32(num0, seed)
        n3 == Xor32(n2, Shr32(n2, 8))
        n4 == Add32(n3, MCHR_BIT_NOISE2)
        n5 == Xor32(n4, Shl32(n4, 8))
        n6 == Mul32(n5, MCHR_BIT_NOISE3)
    IN  Xor32(n6, Shr32(n6, 8))

\* The bit-noise steps that follow the loop
HashNoise(num0, seed) ==
    LET n1 == Mul32(num0, MCHR_BIT_NOISE1)
        n2 == Add32(n1, seed)
        n3 == Xor32(n2, Shr32(n2, 8))
        n4 == Add32(n3, MCHR_BIT_NOISE2)
        n5 == Xor32(n4, Shl32(n4, 8))
        n6 == Mul32(n5, MCHR_BIT_NOISE3)
    IN  Xor32(n6, Shr32(n6, 8))

\* mchr_get_hash_uint(index_buffer, len, seed); index is the buffer as its
\* sequence of len / 4 words
mchr_get_hash_uint(index, seed) ==
    HashNoise(HashWords(index, 1, 0, <<0, 0>>), seed)

\* ------------------------------------------------------------------------
\* The bounded sampler: what one iteration of the do-while loop of
\* mchr_get_hash_uint_under_limit does with the value it draws
\* ------------------------------------------------------------------------

\* CHAR_BIT * sizeof(MCHR_UINT)
WordBits == 32

\* No bit range of the draw held a value under the bound
Rejected == [ok |-> FALSE, r |-> <<0, 0>>]

\* `return result`
Accepted(r) == [ok |-> TRUE, r |-> r]

\* WindowFits with the comparison off by one: result <= upper_bound
WindowFitsLe(result, upper_bound) == Le32(result, upper_bound)

\* The test applied to each range of bits: result < upper_bound
WindowFits(result, upper_bound) == Lt32(result, upper_bound)

RECURSIVE ScanWindowsAgain(_, _, _, _, _)
\* ScanWindows without `value >>= bits` taking effect: every pass looks at
\* the same range of bits of the draw
ScanWindowsAgain(value, bits, mask, upper_bound, bits_left) ==
    IF bits_left >= bits
    THEN LET shifted == Shr32(value, bits)
             result  == And32(shifted, mask)
         IN  IF WindowFits(result, upper_bound)
             THEN Accepted(result)
             ELSE ScanWindowsAgain(value, bits, mask, upper_bound,
                                   bits_left - bits)
    ELSE Rejected

RECURSIVE ScanWindows(_, _, _, _, _)
\* The inner while loop: consume the remaining bits of the draw, bits at
\* a time
ScanWindows(value, bits, mask, upper_bound, bits_left) ==
    IF bits_left >= bits
    THEN LET shifted == Shr32(value, bits)
             result  == And32(shifted, mask)
         IN  IF WindowFits(result, upper_bound)
             THEN Accepted(result)
             ELSE ScanWindows(shifted, bits, mask, upper_bound,
                              bits_left - bits)
    ELSE Rejected

\* ScanDraw without the rejection: the low range of bits reduced modulo
\* the bound
ScanDrawModulo(width, value, upper_bound) ==
    LET zeros  == clz(upper_bound) - (32 - width)
        mask   == Shr32(Shr32(AllOnes, 32 - width), zeros)
        result == And32(value, mask)
    IN  Accepted(U32(WordToNat(result) % WordToNat(upper_bound)))

\* The body of the do-while loop for a drawn value, on words of `width`
\* bits (the library's words have WordBits bits): the low range of bits
\* first, then the inner loop
ScanDraw(width, value, upper_bound) ==
    LET zeros  == clz(upper_bound) - (32 - width)
        bits   == width - zeros
        mask   == Shr32(Shr32(AllOnes, 32 - width), zeros)
        result == And32(value, mask)
    IN  IF WindowFits(result, upper_bound)
        THEN Accepted(result)
        ELSE ScanWindows(value, bits, mask, upper_bound, zeros)

\* NextSeed that leaves the seed as it is
NextSeedStuck(seed) == seed

\* `seed += 1` after a draw with no acceptable range of bits
NextSeed(seed) == Add32(seed, <<0, 1>>)

RECURSIVE mchr_get_hash_uint_under_limit(_, _, _)
\* mchr_get_hash_uint_under_limit(index_buffer, len, seed, upper_bound) as
\* a function of its arguments: the do-while loop run to its return
mchr_get_hash_uint_under_limit(index, seed, upper_bound) ==
    IF Lt32(upper_bound, <<0, 2>>) THEN <<0, 0>>
    ELSE Only({IF d.ok THEN d.r
               ELSE mchr_get_hash_uint_under_limit(index, NextSeed(seed),
                                                   upper_bound) :
                 d \in {ScanDraw(WordBits, mchr_get_hash_uint(index, seed),
                                 upper_bound)}})

\* ------------------------------------------------------------------------
\* Floats.  Every float the library computes is a dyadic rational n / d
\* with d a power of two; it is modelled as the pair <<n, d>> in lowest
\* terms.
\* ------------------------------------------------------------------------

RECURSIVE Dyadic(_, _)
\* n / d in lowest terms
Dyadic(n, d) ==
    IF d > 1 /\ n % 2 = 0 THEN Dyadic(n \div 2, d \div 2) ELSE <<n, d>>

\* FloatLt with <= for <
FloatLe(a, b) ==
    \E x \in {a}, y \in {b} :
        IF x[2] <= y[2] THEN x[1] * (y[2] \div x[2]) <= y[1]
        ELSE x[1] <= y[1] * (x[2] \div y[2])

\* a < b on floats
FloatLt(a, b) ==
    \E x \in {a}, y \in {b} :
        IF x[2] <= y[2] THEN x[1] * (y[2] \div x[2]) < y[1]
        ELSE x[1] < y[1] * (x[2] \div y[2])

\* The conversion of num < 2^25 to float in `num * 1.0f`: a float has 24
\* significant bits, so an odd num >= 2^24 is rounded to the nearest even
\* number, ties to the even mantissa
UintToFloat(n) ==
    Only({IF m < 16777216 \/ m % 2 = 0 THEN m
          ELSE IF (m + 1) % 4 = 0 THEN m + 1 ELSE m - 1 : m \in {n}})

\* mchr_priv_uint_to_zero_one without `if (num >= max_range) return 1.0`
uint_to_zero_one_masked(num) ==
    LET max_range == U32(16777216)
        masked    == And32(num, Sub32(max_range, <<0, 1>>))
    IN  Dyadic(UintToFloat(WordToNat(masked)), 16777216)

mchr_priv_uint_to_zero_one(num) ==
    LET max_range == U32(16777216)      \* 1 << 24
    IN  IF Le32(max_range, num) THEN <<1, 1>>
        ELSE LET masked == And32(num, Sub32(max_range, <<0, 1>>))
             IN  Dyadic(UintToFloat(WordToNat(masked)), 16777216)

mchr_priv_uint_to_neg_one_one(num) ==
    LET max_range == U32(33554432)      \* 1 << 25
        masked    == And32(num, Sub32(max_range, <<0, 1>>))
        f         == UintToFloat(WordToNat(masked))
    \* (f / 2^25) * 2.0 - 1.0
    IN  Dyadic(f - 16777216, 16777216)

\* ------------------------------------------------------------------------
\* Calls.  A call is an entry point of the library with its arguments:
\* op the family of the function, dim = 0 for the function taking
\* (index_buffer, len) and dim = n for its n-coordinate variant.  idx is
\* the buffer as its words (dim = 0), coords the coordinates (dim > 0).
\* ------------------------------------------------------------------------

MkCall(op, dim, idx, coords, seed, ub, umin, umax, imin, imax, prob) ==
    [op |-> op, dim |-> dim, idx |-> idx, coords |-> coords, seed |-> seed,
     ub |-> ub, umin |-> umin, umax |-> umax, imin |-> imin, imax |-> imax,
     prob |-> prob]

NoCall == MkCall("none", 0, <<>>, <<>>, <<0, 0>>, <<0, 0>>, <<0, 0>>,
                 <<0, 0>>, 0, 0, <<0, 1>>)

\* The functions built on mchr_get_hash_uint_under_limit
SamplerOps == {"uint_under_limit", "uint_in_range", "int_in_range",
               "zero_to_one", "neg_one_to_one", "chance"}

\* PackCoords with the coordinates in the reverse order
PackCoordsReversed(coords) ==
    [k \in 1..Len(coords) |-> IntToWord(coords[Len(coords) + 1 - k])]

\* `MCHR_INT array[] = { posX, posY, ... }` (or &pos), read by the hash
\* through its MCHR_UINT pointer
PackCoords(coords) == [k \in 1..Len(coords) |-> IntToWord(coords[k])]

\* The words the hash reads for a call
IndexOf(c) == IF c.dim = 0 THEN c.idx ELSE PackCoords(c.coords)

\* The upper_bound argument a function passes to
\* mchr_get_hash_uint_under_limit
UpperBoundOf(c) ==
    CASE c.op = "uint_under_limit" -> c.ub
      [] c.op = "uint_in_range" ->
            Add32(Sub32(c.umax, c.umin), <<0, 1>>)
      [] c.op = "int_in_range" ->
            \* max - min + 1, when the int arithmetic wraps around
            Add32(Sub32(IntToWord(c.imax), IntToWord(c.imin)), <<0, 1>>)
      [] c.op \in {"zero_to_one", "chance"} -> U32(16777217)  \* (1 << 24) + 1
      [] c.op = "neg_one_to_one" -> U32(33554432)             \* (1 << 25)

\* `max - min + 1` of the int range functions is evaluated in MCHR_INT:
\* it overflows when max - min >= INT_MAX, which is undefined behaviour
SignedOverflow(c) ==
    /\ c.op = "int_in_range"
    /\ IF (c.imin < 0) = (c.imax < 0)
       THEN c.imax - c.imin >= INT_MAX
       ELSE c.imax >= INT_MAX + c.imin

\* Return values: an MCHR_UINT (w), an MCHR_INT (i), a float (f) or a
\* bool (b), by the return type of the function
NoResult == [type |-> "none", w |-> <<0, 0>>, i |-> 0, f |-> <<0, 1>>,
             b |-> FALSE]
UintResult(w) == [NoResult EXCEPT !.type = "MCHR_UINT", !.w = w]
IntResult(i) == [NoResult EXCEPT !.type = "MCHR_INT", !.i = i]
FloatResult(f) == [NoResult EXCEPT !.type = "float", !.f = f]
BoolResult(b) == [NoResult EXCEPT !.type = "bool", !.b = b]

\* What a function returns once mchr_get_hash_uint_under_limit returned
\* bnd
Finish(c, bnd) ==
    CASE c.op = "uint_under_limit" -> UintResult(bnd)
      [] c.op = "uint_in_range" -> UintResult(Add32(bnd, c.umin))
      [] c.op = "int_in_range" ->
            IntResult(WordToInt(Add32(bnd, IntToWord(c.imin))))
      [] c.op = "zero_to_one" ->
            FloatResult(mchr_priv_uint_to_zero_one(bnd))
      [] c.op = "neg_one_to_one" ->
            FloatResult(mchr_priv_uint_to_neg_one_one(bnd))
      [] c.op = "chance" ->
            BoolResult(FloatLt(mchr_priv_uint_to_zero_one(bnd), c.prob))

\* ------------------------------------------------------------------------
\* The arguments the callers of the model choose from
\* ------------------------------------------------------------------------

Zero == <<0, 0>>
One == <<0, 1>>

\* Coordinates for the 1- to 4-coordinate functions
CoordSet == {<<0>>, <<5, 7>>, <<-1, 2, 3>>, <<1, 2, 3, 4>>}

\* Index buffers for the buffer functions: one and two words
BufferSet == {<<Zero>>, <<U32(5), U32(7)>>}

\* Seeds: 0, 1, 0xFFFFFFFF, 234234 and two seeds for which the hash of
\* the buffer { 0 } is 0x01000000 and 0
SeedSet == {Zero, One, AllOnes, U32(234234),
            <<31953, 27132>>, <<54870, 5958>>}

\* upper_bound arguments: the degenerate 0 and 1, small bounds, bounds
\* next to a power of two (2^11 + 1 leaves two ranges of 12 bits to a
\* draw), and the largest
BoundSet == {Zero, One, U32(2), U32(3), U32(5), U32(10), U32(2049),
             U32(16777217), <<32768, 1>>, AllOnes}

\* <<min, max>> of the unsigned range functions, min < max;
\* <<0, 0xFFFFFFFF>> is the widest
URangeSet == {<<U32(3), U32(5)>>, <<Zero, U32(9)>>,
              <<<<65535, 65520>>, AllOnes>>, <<U32(10), AllOnes>>,
              <<Zero, AllOnes>>}

\* <<min, max>> of the int range functions, min < max
IRangeSet == {<<0, 9>>, <<-5, 5>>, <<INT_MIN, -2>>, <<INT_MIN, 0>>,
              <<-1, INT_MAX>>, <<INT_MIN, INT_MAX>>}

\* probability_of_true: 0.0, 0.5, 1.0
ProbSet == {<<0, 1>>, <<1, 2>>, <<1, 1>>}

\* The calls of a function family on a given index and seed
CallsOn(dim, idx, coords, seed) ==
    {MkCall("hash_uint", dim, idx, coords, seed, Zero, Zero, Zero, 0, 0,
            <<0, 1>>)}
    \cup {MkCall("uint_in_range", dim, idx, coords, seed, Zero, r[1], r[2],
                 0, 0, <<0, 1>>) : r \in URangeSet}
    \cup {MkCall("int_in_range", dim, idx, coords, seed, Zero, Zero, Zero,
                 r[1], r[2], <<0, 1>>) : r \in IRangeSet}
    \cup {MkCall(op, dim, idx, coords, seed, Zero, Zero, Zero, 0, 0,
                 <<0, 1>>) : op \in {"zero_to_one", "neg_one_to_one"}}
    \cup {MkCall("chance", dim, idx, coords, seed, Zero, Zero, Zero, 0, 0,
                 p) : p \in ProbSet}

\* The calls of the single caller
MainCalls ==
    UNION {CallsOn(0, b, <<>>, s) : b \in BufferSet, s \in SeedSet}
    \cup UNION {CallsOn(Len(c), <<>>, c, s) : c \in CoordSet, s \in SeedSet}
    \cup {MkCall("uint_under_limit", 0, b, <<>>, s, ub, Zero, Zero, 0, 0,
                 <<0, 1>>) : b \in BufferSet, s \in SeedSet, ub \in BoundSet}

\* The calls of the callers that run side by side: every function family
\* on every number of coordinates, through the coordinate function and
\* through the buffer function on the buffer holding the same coordinates
ThreadCallsOn(dim, idx, coords, seed) ==
    {MkCall(op, dim, idx, coords, seed, Zero, Zero, Zero, 0, 0, <<0, 1>>) :
        op \in {"hash_uint", "zero_to_one", "neg_one_to_one"}}
    \cup {MkCall("uint_in_range", dim, idx, coords, seed, Zero, U32(3),
                 U32(5), 0, 0, <<0, 1>>),
          MkCall("int_in_range", dim, idx, coords, seed, Zero, Zero, Zero,
                 -5, 5, <<0, 1>>),
          MkCall("int_in_range", dim, idx, coords, seed, Zero, Zero, Zero,
                 INT_MIN, 0, <<0, 1>>),
          MkCall("chance", dim, idx, coords, seed, Zero, Zero, Zero, 0, 0,
                 <<1, 2>>)}

\* The buffers that hold the coordinates of CoordSet
CoordBufferSet == {<<Zero>>, <<U32(5), U32(7)>>,
                   <<AllOnes, U32(2), U32(3)>>,
                   <<U32(1), U32(2), U32(3), U32(4)>>}

ThreadCalls ==
    UNION {ThreadCallsOn(0, b, <<>>, One) : b \in CoordBufferSet}
    \cup UNION {ThreadCallsOn(Len(c), <<>>, c, One) : c \in CoordSet}

\* The number of consecutive seeds 0, 1, ... a sweep over a range tries
SweepLen == 24

\* The ranges swept
SweepRangeSet == {<<U32(3), U32(5)>>, <<Zero, U32(9)>>, <<Zero, AllOnes>>}

\* The i-th call of a sweep over <<min, max>>: the buffer { 0 }, seed i - 1
SweepCallAt(r, i) ==
    MkCall("uint_in_range", 0, <<Zero>>, <<>>, U32(i - 1), Zero, r[1], r[2],
           0, 0, <<0, 1>>)

\* The word width of the exhaustive count of the windows of a draw
CountBits == 6

\* The number of seeds a probe tries
ProbeLen == 12

\* The i-th seed of a probe: 0, g, 2g, ... modulo 2^32, g = 0x9E3779B1
ProbeSeed(i) == Mul32(U32(i - 1), <<40503, 31153>>)

\* Pairs of distinct coordinates for the 1-coordinate functions: next to
\* each other, far apart, and 2^29, 2^30 and 2^31 apart
CoordPairSet == {<<0, 1>>, <<5, 7>>, <<-1, 1>>, <<1, 65537>>,
                 <<INT_MIN, INT_MAX>>, <<0, 536870912>>,
                 <<0, 1073741824>>, <<-5, 1073741819>>,
                 <<3, -2147483645>>}

\* <<n, p, q>>: a buffer of n words and two of its positions p < q < n,
\* counted from 0
SwapSet == {<<2, 0, 1>>, <<3, 0, 2>>, <<3, 1, 2>>, <<4, 1, 3>>, <<7, 0, 6>>,
            <<7, 1, 5>>, <<7, 5, 6>>, <<8, 0, 6>>, <<8, 1, 7>>, <<8, 2, 7>>,
            <<13, 0, 12>>}

\* The buffer of n words of the i-th step of a swap probe: the words
\* i, 2i, ..., n * i, all different
SwapWords(n, i) == [k \in 1..n |-> U32(k * i)]

\* The buffer with the words at the positions p and q exchanged
Exchange(b, p, q) == [b EXCEPT ![p + 1] = b[q + 1], ![q + 1] = b[p + 1]]

\* The index buffers of the seed probe: 1 to 9 words
SeedBufferSet == {<<Zero>>} \cup {SwapWords(n, 3) : n \in 1..9}

\* The i-th 32-bit value of a seed probe: 0xFFFFFFFF first, then values
\* spread over the 32 bits
ProbeValue(i) == Sub32(Mul32(U32(i - 1), <<34283, 51831>>), U32(i % 2))

\* <<min, max>> of the range calls of a probe
ProbeRange == <<Zero, U32(9)>>

\* ------------------------------------------------------------------------
\* State.  Every caller (thread) runs one library call at a time.  The
\* library keeps no state: what is below is each call's arguments, locals
\* and return value.
\* ------------------------------------------------------------------------

VARIABLES
    harness,    \* which callers drive the library: "main", "threads",
                \* "sweep", "count", "pairs", "swap" or "seeds"
    pc,         \* pc[t]: "idle", "loop" (in the do-while loop of
                \* mchr_get_hash_uint_under_limit), "done" (returned),
                \* "trap" (aborted on the signed overflow) or "hang" (in
                \* a call that never returns)
    call,       \* call[t]: the call caller t is running or has run
    seed,       \* seed[t]: the local `seed` of the sampler
    ubound,     \* ubound[t]: the upper_bound the sampler was given
    bounded,    \* bounded[t]: what the sampler returned
    result,     \* result[t]: what the call returned
    sweep,      \* the sweep harness: the range, the position in the sweep
                \* and the values returned so far
    count,      \* the count harness: the bound, the next draw to count and
                \* how many draws gave each value
    probe       \* the probe harnesses: the inputs compared and what the
                \* comparison found so far

vars == <<harness, pc, call, seed, ubound, bounded, result, sweep, count,
          probe>>

\* The callers of the harness
Callers == DOMAIN pc

\* The callers that run side by side
Threads == {1, 2}

\* The calls the callers of a harness make
CallSet == IF harness = "threads" THEN ThreadCalls ELSE MainCalls

NoSweep == [min |-> Zero, max |-> Zero, i |-> 0, seen |-> {}]
NoCount == [ub |-> 0, raw |-> 0, hist |-> <<>>]
NoProbe == [kind |-> "none", x |-> 0, y |-> 0, n |-> 0, p |-> 0, q |-> 0,
            idx |-> <<>>, i |-> 0, differ |-> FALSE, s |-> <<0, 0>>,
            back |-> <<0, 0>>, v |-> <<0, 0>>, hv |-> <<0, 0>>,
            seeds |-> {}, hashes |-> {}]

InitCallers(h, T) ==
    /\ harness = h
    /\ pc = [t \in T |-> "idle"]
    /\ call = [t \in T |-> NoCall]
    /\ seed = [t \in T |-> Zero]
    /\ ubound = [t \in T |-> Zero]
    /\ bounded = [t \in T |-> Zero]
    /\ result = [t \in T |-> NoResult]

Init ==
    /\ InitCallers("main", {1})
    /\ sweep = NoSweep /\ count = NoCount /\ probe = NoProbe

InitThreads ==
    /\ InitCallers("threads", Threads)
    /\ sweep = NoSweep /\ count = NoCount /\ probe = NoProbe

InitSweep ==
    /\ InitCallers("sweep", {1})
    /\ sweep \in {[min |-> r[1], max |-> r[2], i |-> 1, seen |-> {}] :
                      r \in SweepRangeSet}
    /\ count = NoCount
    /\ probe = NoProbe

InitCount ==
    /\ InitCallers("count", {})
    /\ sweep = NoSweep
    /\ count \in {[ub |-> u, raw |-> 0,
                   hist |-> [r \in 0..(2 ^ CountBits - 1) |-> 0]] :
                      u \in 2..(2 ^ CountBits - 1)}
    /\ probe = NoProbe

\* LocalSeed with one seed for all callers, as a static variable would be
SharedSeed(t) == seed[1]

\* The sampler's parameter `seed` is passed by value: every call reads and
\* writes its own copy
LocalSeed(t) == seed[t]

\* mchr_get_hash_uint and mchr_get_{1,2,3,4}d_hash_uint
CallHash(t) ==
    /\ pc[t] = "idle"
    /\ \E c \in CallSet :
        /\ c.op = "hash_uint"
        /\ call' = [call EXCEPT ![t] = c]
        /\ result' = [result EXCEPT ![t] =
                UintResult(mchr_get_hash_uint(IndexOf(c), c.seed))]
    /\ pc' = [pc EXCEPT ![t] = "done"]
    /\ UNCHANGED <<harness, seed, ubound, bounded, sweep, count, probe>>

\* A function built on the sampler called as c, up to the sampler's
\* do-while loop: `if (upper_bound < 2) return 0;`, else enter the loop
StartSampler(t, c) ==
    /\ call' = [call EXCEPT ![t] = c]
    /\ seed' = [seed EXCEPT ![t] = c.seed]
    /\ ubound' = [ubound EXCEPT ![t] = UpperBoundOf(c)]
    /\ IF Lt32(UpperBoundOf(c), U32(2))
       THEN /\ bounded' = [bounded EXCEPT ![t] = Zero]
            /\ result' = [result EXCEPT ![t] = Finish(c, Zero)]
            /\ pc' = [pc EXCEPT ![t] = "done"]
       ELSE /\ pc' = [pc EXCEPT ![t] = "loop"]
            /\ UNCHANGED <<bounded, result>>

\* A call of a function built on the sampler
CallSampler(t) ==
    /\ pc[t] = "idle"
    /\ \E c \in CallSet : c.op \in SamplerOps /\ StartSampler(t, c)
    /\ UNCHANGED <<harness, sweep, count, probe>>

\* An int range function whose `max - min + 1` overflows, in a build that
\* does not wrap around: the call aborts where the build traps on signed
\* overflow, and it never returns where the build, taking min < max to
\* mean max - min + 1 >= 2, drops the `upper_bound < 2` test of the
\* sampler and runs its loop on the bound 0
CallTrap(t) ==
    /\ pc[t] = "idle"
    /\ \E c \in CallSet :
        /\ SignedOverflow(c)
        /\ call' = [call EXCEPT ![t] = c]
        /\ \/ pc' = [pc EXCEPT ![t] = "trap"]
           \/ /\ Lt32(UpperBoundOf(c), U32(2))
              /\ pc' = [pc EXCEPT ![t] = "hang"]
    /\ UNCHANGED <<harness, seed, ubound, bounded, result, sweep, count, probe>>

\* One iteration of the do-while loop: draw, look for a range of bits
\* under the bound, return it or retry with the next seed
Draw(t) ==
    /\ pc[t] = "loop"
    /\ \E value \in {mchr_get_hash_uint(IndexOf(call[t]), LocalSeed(t))} :
       \E d \in {ScanDraw(WordBits, value, ubound[t])} :
           IF d.ok
           THEN /\ bounded' = [bounded EXCEPT ![t] = d.r]
                /\ result' = [result EXCEPT ![t] = Finish(call[t], d.r)]
                /\ pc' = [pc EXCEPT ![t] = "done"]
                /\ UNCHANGED seed
           ELSE /\ seed' = [seed EXCEPT ![t] = NextSeed(LocalSeed(t))]
                /\ UNCHANGED <<pc, bounded, result>>
    /\ UNCHANGED <<harness, call, ubound, sweep, count, probe>>

\* Nothing of a call outlives it
Forget(t) ==
    /\ pc' = [pc EXCEPT ![t] = "idle"]
    /\ call' = [call EXCEPT ![t] = NoCall]
    /\ seed' = [seed EXCEPT ![t] = Zero]
    /\ ubound' = [ubound EXCEPT ![t] = Zero]
    /\ bounded' = [bounded EXCEPT ![t] = Zero]
    /\ result' = [result EXCEPT ![t] = NoResult]

\* The caller is done with the value and is ready for its next call
Return(t) ==
    /\ pc[t] \in {"done", "trap"}
    /\ Forget(t)
    /\ UNCHANGED <<harness, sweep, count, probe>>

Next ==
    \/ CallHash(1)
    \/ CallSampler(1)
    \/ CallTrap(1)
    \/ Draw(1)
    \/ Return(1)

Spec == Init /\ [][Next]_vars

\* A call that is in the loop keeps running
FairSpec == Spec /\ WF_vars(Draw(1))

\* Callers running side by side, each step of each an atomic step
NextThreads ==
    \E t \in Threads :
        \/ CallHash(t)
        \/ CallSampler(t)
        \/ CallTrap(t)
        \/ Draw(t)
        \/ Return(t)

SpecThreads == InitThreads /\ [][NextThreads]_vars

\* The sweep harness: mchr_get_hash_uint_in_range over one range, on the
\* buffer { 0 } and the seeds 0, 1, ..., SweepLen - 1 in turn
SweepCall ==
    /\ pc[1] = "idle"
    /\ sweep.i <= SweepLen
    /\ StartSampler(1, SweepCallAt(<<sweep.min, sweep.max>>, sweep.i))
    /\ UNCHANGED <<harness, sweep, count, probe>>

SweepReturn ==
    /\ pc[1] = "done"
    /\ sweep' = [sweep EXCEPT !.i = @ + 1, !.seen = @ \cup {result[1].w}]
    /\ Forget(1)
    /\ UNCHANGED <<harness, count, probe>>

NextSweep == SweepCall \/ Draw(1) \/ SweepReturn

SpecSweep == InitSweep /\ [][NextSweep]_vars

\* The count harness: every value a draw can have, on words of CountBits
\* bits, goes through the body of the do-while loop once; hist counts the
\* draws by the value returned
CountDraw ==
    /\ harness = "count"
    /\ count.raw < 2 ^ CountBits
    /\ \E d \in {ScanDraw(CountBits, U32(count.raw), U32(count.ub))} :
           count' = [count EXCEPT
                        !.raw = @ + 1,
                        !.hist = IF d.ok
                                 THEN [@ EXCEPT ![WordToNat(d.r)] = @ + 1]
                                 ELSE @]
    /\ UNCHANGED <<harness, pc, call, seed, ubound, bounded, result, sweep,
                 probe>>

NextCount == CountDraw

SpecCount == InitCount /\ [][NextCount]_vars

\* mchr_get_1d_hash_uint(pos, seed)
mchr_get_1d_hash_uint(pos, s) == mchr_get_hash_uint(PackCoords(<<pos>>), s)

\* mchr_get_1d_hash_uint_in_range(pos, seed, min, max)
mchr_get_1d_hash_uint_in_range(pos, s, min, max) ==
    Add32(mchr_get_hash_uint_under_limit(PackCoords(<<pos>>), s,
                                         Add32(Sub32(max, min), One)),
          min)

\* The pair harness: mchr_get_1d_hash_uint and
\* mchr_get_1d_hash_uint_in_range at two coordinates x # y, with ProbeLen
\* seeds in turn; differ tells whether a call at x returned another value
\* than the same call at y
InitPairs ==
    /\ InitCallers("pairs", {})
    /\ sweep = NoSweep /\ count = NoCount
    /\ probe \in {[NoProbe EXCEPT !.kind = "pairs", !.x = c[1], !.y = c[2],
                                  !.i = 1] : c \in CoordPairSet}

PairCall ==
    /\ harness = "pairs"
    /\ probe.i <= ProbeLen
    /\ \E s \in {ProbeSeed(probe.i)} :
       \E hx \in {mchr_get_1d_hash_uint(probe.x, s)} :
       \E hy \in {mchr_get_1d_hash_uint(probe.y, s)} :
       \E rx \in {mchr_get_1d_hash_uint_in_range(probe.x, s, ProbeRange[1],
                                                 ProbeRange[2])} :
       \E ry \in {mchr_get_1d_hash_uint_in_range(probe.y, s, ProbeRange[1],
                                                 ProbeRange[2])} :
           probe' = [probe EXCEPT
                        !.i = @ + 1,
                        !.s = s,
                        !.v = hx,
                        !.hv = hy,
                        !.differ = @ \/ hx # hy \/ rx # ry]
    /\ UNCHANGED <<harness, pc, call, seed, ubound, bounded, result, sweep,
                   count>>

NextPairs == PairCall

SpecPairs == InitPairs /\ [][NextPairs]_vars

\* The swap harness: mchr_get_hash_uint on a buffer of n words and on the
\* buffer with the words at p and q exchanged, over ProbeLen buffers and
\* seeds in turn; differ tells whether an exchange changed the hash
InitSwap ==
    /\ InitCallers("swap", {})
    /\ sweep = NoSweep /\ count = NoCount
    /\ probe \in {[NoProbe EXCEPT !.kind = "swap", !.n = c[1], !.p = c[2],
                                  !.q = c[3], !.i = 1] : c \in SwapSet}

SwapCall ==
    /\ harness = "swap"
    /\ probe.i <= ProbeLen
    /\ \E s \in {ProbeSeed(probe.i)} :
       \E b \in {SwapWords(probe.n, probe.i)} :
       \E h1 \in {mchr_get_hash_uint(b, s)} :
       \E h2 \in {mchr_get_hash_uint(Exchange(b, probe.p, probe.q), s)} :
           probe' = [probe EXCEPT
                        !.i = @ + 1,
                        !.s = s,
                        !.idx = b,
                        !.v = h1,
                        !.hv = h2,
                        !.differ = @ \/ h1 # h2]
    /\ UNCHANGED <<harness, pc, call, seed, ubound, bounded, result, sweep,
                   count>>

NextSwap == SwapCall

SpecSwap == InitSwap /\ [][NextSwap]_vars

\* The inverse of MCHR_BIT_NOISE3 modulo 2^32: 0xAE4E5359
Noise3Inverse == <<44622, 21337>>

\* The x with x ^ (x >> 8) = y
UnXorShr8(y) ==
    Only({Xor32(Xor32(z, Shr32(z, 8)), Xor32(Shr32(z, 16), Shr32(z, 24))) :
            z \in {y}})

\* The x with x ^ (x << 8) = y
UnXorShl8(y) ==
    Only({Xor32(Xor32(z, Shl32(z, 8)), Xor32(Shl32(z, 16), Shl32(z, 24))) :
            z \in {y}})

\* The seed that the bit-noise steps of mchr_get_hash_uint, undone from
\* the last to the first, give for the hash v of the buffer index
SeedFor(index, v) ==
    Only({Sub32(n2, Mul32(HashWords(index, 1, 0, Zero), MCHR_BIT_NOISE1)) :
            n2 \in {UnXorShr8(n3) :
              n3 \in {Sub32(n4, MCHR_BIT_NOISE2) :
                n4 \in {UnXorShl8(n5) :
                  n5 \in {Mul32(n6, Noise3Inverse) :
                    n6 \in {UnXorShr8(n7) : n7 \in {v}}}}}}})

\* The seed harness: on one index buffer, mchr_get_hash_uint of ProbeLen
\* seeds, and of the seeds SeedFor gives for ProbeLen values; seeds and
\* hashes collect the seeds tried and the hashes they gave
InitSeeds ==
    /\ InitCallers("seeds", {})
    /\ sweep = NoSweep /\ count = NoCount
    /\ probe \in {[NoProbe EXCEPT !.kind = "seeds", !.idx = b, !.i = 1] :
                      b \in SeedBufferSet}

SeedCall ==
    /\ harness = "seeds"
    /\ probe.i <= ProbeLen
    /\ \E s \in {ProbeSeed(probe.i)}, v \in {ProbeValue(probe.i)} :
       \E hs \in {mchr_get_hash_uint(probe.idx, s)} :
       \E sv \in {SeedFor(probe.idx, v)} :
       \E hv \in {mchr_get_hash_uint(probe.idx, sv)} :
           probe' = [probe EXCEPT
                        !.i = @ + 1,
                        !.s = s,
                        !.back = SeedFor(probe.idx, hs),
                        !.v = v,
                        !.hv = hv,
                        !.seeds = @ \cup {s, sv},
                        !.hashes = @ \cup {hs, hv}]
    /\ UNCHANGED <<harness, pc, call, seed, ubound, bounded, result, sweep,
                   count>>

NextSeeds == SeedCall

SpecSeeds == InitSeeds /\ [][NextSeeds]_vars

\* ------------------------------------------------------------------------
\* Properties
\* ------------------------------------------------------------------------

Returned(t, op) == pc[t] = "done" /\ call[t].op = op

\* C1: mchr_get_hash_uint_under_limit returns r with 0 <= r < upper_bound
\* when upper_bound >= 2, and 0 when upper_bound is 0 or 1.
C1_UnderLimit ==
    \A t \in Callers :
        Returned(t, "uint_under_limit") =>
            IF Lt32(call[t].ub, U32(2))
            THEN result[t].w = Zero
            ELSE Le32(Zero, result[t].w) /\ Lt32(result[t].w, call[t].ub)

\* A call with upper_bound = 3 returned after it rejected a range of bits
\* equal to the bound: the hash of { 5, 7 } with seed 1 ends in the bits 11
C1_Witness ==
    \E t \in Callers :
        /\ Returned(t, "uint_under_limit")
        /\ call[t].ub = U32(3)
        /\ call[t].idx = <<U32(5), U32(7)>>
        /\ call[t].seed = One
        /\ result[t].w = One

\* C2: per draw the sampler is unbiased: over all the values a draw can
\* have, as many give r as the first accepted range of bits for every r
\* under upper_bound (counted on words of CountBits bits).
C2_Unbiased ==
    (harness = "count" /\ count.raw = 2 ^ CountBits) =>
        \A r1, r2 \in 0..(count.ub - 1) : count.hist[r1] = count.hist[r2]

\* The count is complete for the bound 3, which is no power of two and
\* gives several ranges of bits per draw, and every value was returned
C2_Witness ==
    /\ harness = "count"
    /\ count.raw = 2 ^ CountBits
    /\ count.ub = 3
    /\ count.hist[0] > 2 ^ (CountBits - 2)
    /\ count.hist[3] = 0

\* C3: the retry loop of mchr_get_hash_uint_under_limit always reaches an
\* accepted range of bits: a call that entered the loop returns.
C3_Returns == (pc[1] = "loop") ~> (pc[1] = "done")

\* A call returned after a retry that took the seed from 0xFFFFFFFF to 0
C3_Witness ==
    /\ pc[1] = "done"
    /\ call[1].op \in SamplerOps
    /\ call[1].seed = AllOnes
    /\ seed[1] = Zero

\* What C4 says of a range function that returned
RangeResult(t) ==
    LET c == call[t]
    IN  IF c.op = "uint_in_range"
        THEN /\ ubound[t] = Add32(Sub32(c.umax, c.umin), One)
             /\ result[t].w = Add32(bounded[t], c.umin)
             /\ Le32(c.umin, result[t].w) /\ Le32(result[t].w, c.umax)
        ELSE /\ ubound[t] =
                    Add32(Sub32(IntToWord(c.imax), IntToWord(c.imin)), One)
             /\ result[t].i =
                    WordToInt(Add32(bounded[t], IntToWord(c.imin)))
             /\ c.imin <= result[t].i /\ result[t].i <= c.imax

\* C4: for every min < max, mchr_get_hash_uint_in_range and
\* mchr_get_hash_int_in_range return bounded(index, seed, max - min + 1) +
\* min computed with 32-bit wraparound, a value v with min <= v <= max.
C4_RangeReturns ==
    \A t \in Callers :
        (call[t].op \in {"uint_in_range", "int_in_range"}
            /\ pc[t] \in {"done", "trap", "hang"}) =>
                pc[t] = "done" /\ RangeResult(t)

\* The values of a range a sweep looks for: all of them when they are
\* few, else the two at each end
SweepTargets(min, max) ==
    IF Lt32(Sub32(max, min), U32(16))
    THEN {Add32(min, U32(k)) : k \in 0..WordToNat(Sub32(max, min))}
    ELSE {min, Add32(min, One), Sub32(max, One), max}

\* C5: mchr_get_hash_uint_in_range covers the closed range: every v with
\* min <= v <= max is returned for some (index, seed), also for the widest
\* range min = 0, max = 2^32 - 1.  Stated of a sweep: once the seeds
\* 0 .. SweepLen - 1 were tried, every value looked for was returned.
C5_Covers ==
    (harness = "sweep" /\ sweep.i > SweepLen) =>
        SweepTargets(sweep.min, sweep.max) \subseteq sweep.seen

\* C6: mchr_get_chance with probability_of_true = 1.0 returns true for
\* every index buffer and seed.
C6_ChanceOne ==
    \A t \in Callers :
        (Returned(t, "chance") /\ call[t].prob = <<1, 1>>) =>
            result[t].b = TRUE

\* C7: mchr_get_chance with probability_of_true = 0.0 returns false for
\* every index buffer and seed.
C7_ChanceZero ==
    \A t \in Callers :
        (Returned(t, "chance") /\ call[t].prob = <<0, 1>>) =>
            result[t].b = FALSE

\* mchr_get_chance returned for probability 0.0 where the float drawn is
\* 0.0 itself
C7_Witness ==
    \E t \in Callers :
        /\ Returned(t, "chance")
        /\ call[t].prob = <<0, 1>>
        /\ bounded[t] = Zero

C9_Deterministic ==
    \A t, u \in Callers :
        (pc[t] = "done" /\ pc[u] = "done" /\ call[t] = call[u]) =>
            result[t] = result[u]

\* Two callers returned from equal calls that retried, one of them while
\* the other held its result
C9_Witness ==
    /\ harness = "threads"
    /\ pc[1] = "done" /\ pc[2] = "done"
    /\ call[1] = call[2]
    /\ call[1].op = "zero_to_one"
    /\ seed[1] # call[1].seed

\* The buffer b holds the coordinates in argument order
HoldsCoords(b, coords) ==
    /\ Len(b) = Len(coords)
    /\ \A k \in 1..Len(b) : b[k] = IntToWord(coords[k])

\* The same function family with the same seed, min, max and probability
SameArguments(c, d) ==
    /\ c.op = d.op /\ c.seed = d.seed /\ c.ub = d.ub
    /\ c.umin = d.umin /\ c.umax = d.umax
    /\ c.imin = d.imin /\ c.imax = d.imax
    /\ c.prob = d.prob

\* C10: the n-coordinate function returns what the buffer function returns
\* on the n-word buffer holding the coordinates in argument order, with
\* the same other arguments.
C10_Coordinates ==
    \A t, u \in Callers :
        (/\ pc[t] = "done" /\ pc[u] = "done"
         /\ call[t].dim = 0 /\ call[u].dim \in 1..4
         /\ call[u].dim = Len(call[u].coords)
         /\ SameArguments(call[t], call[u])
         /\ HoldsCoords(call[t].idx, call[u].coords)) =>
            result[t] = result[u]

\* The 3-coordinate chance function and the buffer function on the three
\* words, one a negative coordinate, both returned
C10_Witness ==
    /\ harness = "threads"
    /\ pc[1] = "done" /\ pc[2] = "done"
    /\ call[1].op = "chance" /\ call[2].op = "chance"
    /\ call[1].dim = 0 /\ call[2].dim = 3
    /\ call[2].coords = <<-1, 2, 3>>
    /\ HoldsCoords(call[1].idx, call[2].coords)

\* C11: no two distinct coordinates collide for every seed: for x # y some
\* seed makes mchr_get_1d_hash_uint or mchr_get_1d_hash_uint_in_range at x
\* differ from the same call at y.
C11_NoUniversalCollision ==
    (probe.kind = "pairs" /\ probe.i > ProbeLen) => probe.differ

\* C12 as stated: for every n and every two positions p < q < n some
\* words and seed make the exchange of the words at p and q change
\* mchr_get_hash_uint.
C12_AllPositions ==
    (probe.kind = "swap" /\ probe.i > ProbeLen) => probe.differ

\* C12: the exchange of the words at p and q changes mchr_get_hash_uint
\* for some words and seed exactly when p and q differ modulo
\* MCHR_PRIMES_LEN; positions a multiple of MCHR_PRIMES_LEN apart meet the
\* same prime and their words can be exchanged freely.
C12_Positions ==
    (probe.kind = "swap" /\ probe.i > ProbeLen) =>
        (probe.differ <=>
            probe.p % MCHR_PRIMES_LEN # probe.q % MCHR_PRIMES_LEN)

\* An exchange of the words at the positions 1 and 5 of a buffer of 7 words
\* changed the hash
C12_Witness ==
    /\ probe.kind = "swap" /\ probe.i > ProbeLen
    /\ probe.n = 7 /\ probe.p = 1 /\ probe.q = 5
    /\ probe.differ

RECURSIVE MixerSum(_, _)
\* The accumulator of the mixer after the first k words, as the
\* specification gives it: the sum modulo 2^32 of
\* w_j * table[(j - 1) mod table_len] + table[j mod table_len], j = 1 .. k
MixerSum(index, k) ==
    IF k = 0 THEN Zero
    ELSE Add32(MixerSum(index, k - 1),
               Add32(Mul32(index[k],
                           MCHR_PRIMES[((k - 1) % MCHR_PRIMES_LEN) + 1]),
                     MCHR_PRIMES[(k % MCHR_PRIMES_LEN) + 1]))

\* The finalizer: x ^= x >> 8; x += constant; x ^= x << 8; x *= constant;
\* x ^= x >> 8
Finalizer(x0) ==
    Only({Xor32(x4, Shr32(x4, 8)) :
            x4 \in {Mul32(x3, MCHR_BIT_NOISE3) :
              x3 \in {Xor32(x2, Shl32(x2, 8)) :
                x2 \in {Add32(x1, MCHR_BIT_NOISE2) :
                  x1 \in {Xor32(x, Shr32(x, 8)) : x \in {x0}}}}}})

\* The mixer as C13 states it: the seed added to the accumulator, then the
\* finalizer
MixerAsStated(index, s) == Finalizer(Add32(MixerSum(index, Len(index)), s))

\* The mixer with the accumulator multiplied by MCHR_BIT_NOISE1 before the
\* seed is added
Mixer(index, s) ==
    Finalizer(Add32(Mul32(MixerSum(index, Len(index)), MCHR_BIT_NOISE1), s))

\* C13 as stated: mchr_get_hash_uint is the accumulator over the words
\* plus the seed, passed through the finalizer.
C13_MixerAsStated ==
    (probe.kind = "swap" /\ probe.i > 1) =>
        /\ probe.v = MixerAsStated(probe.idx, probe.s)
        /\ probe.hv = MixerAsStated(Exchange(probe.idx, probe.p, probe.q),
                                    probe.s)

\* C13: mchr_get_hash_uint is the accumulator over the words (table index
\* advancing cyclically from 0), multiplied by MCHR_BIT_NOISE1, plus the
\* seed, passed through the finalizer, all modulo 2^32.
C13_Mixer ==
    (probe.kind = "swap" /\ probe.i > 1) =>
        /\ probe.v = Mixer(probe.idx, probe.s)
        /\ probe.hv = Mixer(Exchange(probe.idx, probe.p, probe.q), probe.s)

\* The hash of a buffer of 13 words, which takes the table index around
\* twice, with a seed above 2^31
C13_Witness ==
    /\ probe.kind = "swap" /\ probe.i > 1
    /\ probe.n = 13
    /\ probe.s[1] >= 32768
    /\ probe.v = Mixer(probe.idx, probe.s)

\* Bit k of a word, k = 0 the least significant
BitAt(w, k) ==
    IF k < 16 THEN (w[2] \div (2 ^ k)) % 2 ELSE (w[1] \div (2 ^ (k - 16))) % 2

RECURSIVE BitsFrom(_, _, _)
\* The number whose bits are the n bits of w from bit k upward, n <= 16
BitsFrom(w, k, n) ==
    IF n = 0 THEN 0 ELSE BitAt(w, k) + 2 * BitsFrom(w, k + 1, n - 1)

\* Field j of w, j = 0 the least significant: the bits j * bits ..
\* j * bits + bits - 1 of w, as a word
Field(w, j, bits) ==
    IF bits <= 16 THEN <<0, BitsFrom(w, j * bits, bits)>>
    ELSE <<BitsFrom(w, j * bits + 16, bits - 16), BitsFrom(w, j * bits, 16)>>

\* 2^b - 1 as a word, 1 <= b <= 32
LowOnes(b) == IF b <= 16 THEN <<0, 2 ^ b - 1>> ELSE <<2 ^ (b - 16) - 1, 65535>>

\* The smallest number of bits with 2^bits - 1 >= upper_bound
SmallestWidth(upper_bound) ==
    CHOOSE b \in 1..32 :
        /\ Le32(upper_bound, LowOnes(b))
        /\ \A c \in 1..(b - 1) : ~Le32(upper_bound, LowOnes(c))

\* The fields of the draw v that hold a value under upper_bound
FittingFields(v, bits, upper_bound) ==
    {j \in 0..((32 \div bits) - 1) : Lt32(Field(v, j, bits), upper_bound)}

\* C14: with bits = 32 - clz(upper_bound) the smallest width such that
\* 2^bits - 1 >= upper_bound, a pass of the sampler's loop returns the
\* lowest of the floor(32 / bits) fields of hash(index, seed) that is
\* under upper_bound, and only when there is none goes on with seed + 1.
C14_FieldOrder ==
    [][pc[1] = "loop" =>
        \E bits \in {SmallestWidth(ubound[1])} :
        \E v \in {mchr_get_hash_uint(IndexOf(call[1]), seed[1])} :
        \E fits \in {FittingFields(v, bits, ubound[1])} :
            /\ bits = 32 - clz(ubound[1])
            /\ IF fits # {}
               THEN /\ pc'[1] = "done"
                    /\ seed'[1] = seed[1]
                    /\ \E j \in fits :
                        /\ \A k \in fits : j <= k
                        /\ bounded'[1] = Field(v, j, bits)
               ELSE /\ pc'[1] = "loop"
                    /\ seed'[1] = Add32(seed[1], One)
                    /\ call'[1] = call[1] /\ ubound'[1] = ubound[1]]_vars

\* A call with upper_bound = 2^11 + 1 on the buffer { 0 } and the seed 1
\* found no field of its first draw under the bound, drew again with the
\* seed 2 and returned the second field of that draw, 355
C14_Witness ==
    /\ pc[1] = "done"
    /\ call[1].op = "uint_under_limit"
    /\ call[1].ub = U32(2049)
    /\ call[1].seed = One /\ seed[1] = U32(2)
    /\ \E v \in {mchr_get_hash_uint(IndexOf(call[1]), seed[1])} :
           /\ FittingFields(v, 12, call[1].ub) = {1}
           /\ bounded[1] = Field(v, 1, 12)
           /\ bounded[1] = U32(355)

\* C15: for a fixed index buffer the hash is a bijection of the seed:
\* different seeds give different hashes, the seed is recovered from the
\* hash, and every value is the hash of a seed.
C15_SeedBijection ==
    (probe.kind = "seeds" /\ probe.i > 1) =>
        /\ Mul32(MCHR_BIT_NOISE3, Noise3Inverse) = One
        /\ probe.back = probe.s
        /\ probe.hv = probe.v
        /\ Cardinality(probe.hashes) = Cardinality(probe.seeds)

\* On a buffer of 7 words 2 * ProbeLen different seeds gave as many
\* hashes, 0xFFFFFFFF among them
C15_Witness ==
    /\ probe.kind = "seeds" /\ probe.i > ProbeLen
    /\ Len(probe.idx) = 7
    /\ Cardinality(probe.seeds) = 2 * ProbeLen
    /\ Cardinality(probe.hashes) = 2 * ProbeLen
    /\ AllOnes \in probe.hashes

====
